---- MODULE Spec2Model ----
(***************************************************************************)
(* Request authorization pipeline (authenticateUser, requireRole,          *)
(* requireMinRole, requireActiveCertificationRound, requireOwnership,      *)
(* authorizeRequest), the notes endpoints (readNotes, createNote) and the  *)
(* abuse guard (checkRateLimit, checkDuplicateContent) of the certification*)
(* backend, as state machines over the document store.                     *)
(***************************************************************************)
EXTENDS Integers, Sequences, FiniteSets, TLC

VARIABLES
    users,            \* collection "users": uid -> user document
    rounds,           \* collection "certificationRounds": id -> status
    resources,        \* collection "modules": id -> resource document
    pc,               \* position of the authorizeRequest invocation
    request,          \* its request argument
    options,          \* its options argument
    userContext,      \* const userContext (Null before step 1 completes)
    activeRound,      \* let activeRound
    error,            \* message of the error thrown (Null if none)
    checks,           \* checks performed by this invocation, in order
    reads,            \* store reads issued by this invocation, in order
    call,             \* last direct call of a synchronous helper
    notes,            \* collection "notes": sequence of documents
    noteWrites,       \* history of writes to "notes" by request handlers
    noteResult,       \* last response of a notes endpoint
    noteCall,         \* last createNote request
    now,              \* Date.now()
    rateLimitStore,   \* Map key -> timestamps
    rateCall,         \* last checkRateLimit call and its outcome
    rateSeen,         \* what the last checkRateLimit call found and when
    recentContentHashes, \* Map hash -> time of the last submission
    dupCall,          \* last checkDuplicateContent call and its outcome
    dupAccepted,      \* (userId, content prefix) -> time of its last accepted submission
    auditLogs,        \* collection "auditLogs": sequence of entries
    auditCall,        \* last logAudit call and how it completed
    handlers,         \* request handlers that call checkRateLimit
    validation        \* last validate<Type>Input call and its outcome

authVars  == <<users, rounds, resources, pc, request, options, userContext,
               activeRound, error, checks, reads>>
noteVars  == <<notes, noteWrites, noteResult, noteCall>>
rateVars  == <<rateLimitStore, rateCall, rateSeen>>
dupVars   == <<recentContentHashes, dupCall, dupAccepted>>
auditVars == <<auditLogs, auditCall>>
guardVars == <<now, rateLimitStore, rateCall, rateSeen, recentContentHashes,
               dupCall, dupAccepted>>
vars == <<users, rounds, resources, pc, request, options, userContext,
          activeRound, error, checks, reads, call, notes, noteWrites,
          noteResult, noteCall, now, rateLimitStore, rateCall, rateSeen,
          recentContentHashes, dupCall, dupAccepted, auditLogs, auditCall,
          handlers, validation>>

----------------------------------------------------------------------------
\* JavaScript values

Null      == "null"
Undefined == "undefined"
NaN       == -1                   \* ToNumber of a non-numeric object

\* truthiness of a string-valued expression
Truthy(v) == v \notin {Null, Undefined, ""}

\* a || b
Or(a, b) == IF Truthy(a) THEN a ELSE b

\* a < b on numbers; any comparison with NaN is false
JsLess(a, b) == a # NaN /\ b # NaN /\ a < b

----------------------------------------------------------------------------
\* Roles

ROLES == {"sysadmin", "programOwner", "operations"}

\* Names every object literal inherits from Object.prototype
ObjectPrototypeKeys == {"constructor", "toString"}

\* ROLE_HIERARCHY[role] || 0 : own entries; inherited members are objects
\* (truthy, NaN in a comparison); anything else is undefined, hence 0
HierarchyLevel(role) ==
    CASE role = "sysadmin"            -> 3
      [] role = "programOwner"        -> 2
      [] role = "operations"          -> 1
      [] role \in ObjectPrototypeKeys -> NaN
      [] OTHER                        -> 0

Ok == "ok"

ErrNoAuth       == "Unauthorized: No authentication provided"
ErrUserNotFound == "Unauthorized: User not found in system"
ErrDeactivated  == "Unauthorized: User account is deactivated"
ErrInvalidRole  == "Unauthorized: Invalid user role"
ErrRoles        == "Forbidden: Requires one of these roles"
ErrMinRole      == "Forbidden: Requires minimum role"
ErrNoRound      == "Forbidden: No active certification round. Changes are not allowed."
ErrNotFound     == "modules not found"
ErrNotOwner     == "Forbidden: You do not own this modules"

----------------------------------------------------------------------------
\* Small domains

UserIds     == {"u1", "u2"}
ProfileIds  == {"u1"}             \* "u2" never gets a profile in "users"
RoundIds    == {"r1", "r2"}
ResourceIds == {"m1"}

TokenRoles  == {Undefined, "programOwner", "hacker"}
StoredRoles == {Undefined, "operations", "sysadmin"}

\* userDoc: exists and data()
NoProfile == [exists |-> FALSE, active |-> FALSE, role |-> Undefined]
Profiles  == [exists : {TRUE}, active : BOOLEAN, role : StoredRoles]

\* a certificationRounds document is its status
RoundStatuses == {"active", "closed"}
NoRound       == [id |-> Null, status |-> Null]

\* resourceDoc: exists and data()
NoResource   == [exists |-> FALSE, createdBy |-> Undefined, assignedTo |-> Undefined]
ResourceData == { [exists |-> TRUE, createdBy |-> "u1", assignedTo |-> "u2"],
                  [exists |-> TRUE, createdBy |-> "u2", assignedTo |-> "u1"],
                  [exists |-> TRUE, createdBy |-> "u2", assignedTo |-> Undefined] }

\* request.auth: absent, or uid and token.role
NoAuth   == [present |-> FALSE, uid |-> Undefined, role |-> Undefined]
Requests ==
    {[auth |-> NoAuth]} \cup
    { [auth |-> [present |-> TRUE, uid |-> u, role |-> r]] :
          u \in UserIds, r \in TokenRoles }

\* options of authorizeRequest; set = FALSE is the default (null / false)
NoRoles     == [set |-> FALSE, roles |-> {}]
RoleSets    == { {"sysadmin"}, {"operations", "programOwner"} }
MinRoles    == { "programOwner", "sysadmin" }
NoOwnership == [set |-> FALSE, resourceId |-> Null, ownerField |-> Undefined]
Ownerships  ==
    { [set |-> TRUE, resourceId |-> m, ownerField |-> f] :
          m \in ResourceIds, f \in {Undefined, "assignedTo"} }

Options ==
    [ requireRoles       : {NoRoles} \cup {[set |-> TRUE, roles |-> rs] : rs \in RoleSets},
      requireMinRole     : {Null} \cup MinRoles,
      requireActiveRound : BOOLEAN,
      requireOwnership   : {NoOwnership} \cup Ownerships ]

NoOptions == [requireRoles |-> NoRoles, requireMinRole |-> Null,
              requireActiveRound |-> FALSE, requireOwnership |-> NoOwnership]

NoContext == [userId |-> Undefined, role |-> Undefined, active |-> FALSE]

----------------------------------------------------------------------------
\* Helpers of the authorization middleware, as functions of their
\* arguments and of the collections they read.  Each yields the error
\* thrown (Ok when it returns) and the store reads it issued.

\* authenticateUser with the active check ahead of the exists check
authenticateUser_ActiveFirst(req, usersColl) ==
    IF ~req.auth.present
    THEN [error |-> ErrNoAuth, ctx |-> NoContext, reads |-> <<>>]
    ELSE LET userId   == req.auth.uid
             userData == usersColl[userId]
             role     == Or(req.auth.role, userData.role)
         IN  IF ~userData.active
             THEN [error |-> ErrDeactivated, ctx |-> NoContext, reads |-> <<"users">>]
             ELSE IF ~userData.exists
             THEN [error |-> ErrUserNotFound, ctx |-> NoContext, reads |-> <<"users">>]
             ELSE IF ~Truthy(role) \/ role \notin ROLES
             THEN [error |-> ErrInvalidRole, ctx |-> NoContext, reads |-> <<"users">>]
             ELSE [error |-> Ok,
                   ctx   |-> [userId |-> userId, role |-> role,
                              active |-> userData.active],
                   reads |-> <<"users">>]

\* authenticateUser with the stored role preferred to the token claim
authenticateUser_StoredFirst(req, usersColl) ==
    IF ~req.auth.present
    THEN [error |-> ErrNoAuth, ctx |-> NoContext, reads |-> <<>>]
    ELSE LET userId   == req.auth.uid
             userData == usersColl[userId]
             role     == Or(userData.role, req.auth.role)
         IN  IF ~userData.exists
             THEN [error |-> ErrUserNotFound, ctx |-> NoContext, reads |-> <<"users">>]
             ELSE IF ~userData.active
             THEN [error |-> ErrDeactivated, ctx |-> NoContext, reads |-> <<"users">>]
             ELSE IF ~Truthy(role) \/ role \notin ROLES
             THEN [error |-> ErrInvalidRole, ctx |-> NoContext, reads |-> <<"users">>]
             ELSE [error |-> Ok,
                   ctx   |-> [userId |-> userId, role |-> role,
                              active |-> userData.active],
                   reads |-> <<"users">>]

\* authenticateUser without the role validation
authenticateUser_NoRoleCheck(req, usersColl) ==
    IF ~req.auth.present
    THEN [error |-> ErrNoAuth, ctx |-> NoContext, reads |-> <<>>]
    ELSE LET userId   == req.auth.uid
             userData == usersColl[userId]
             role     == Or(req.auth.role, userData.role)
         IN  IF ~userData.exists
             THEN [error |-> ErrUserNotFound, ctx |-> NoContext, reads |-> <<"users">>]
             ELSE IF ~userData.active
             THEN [error |-> ErrDeactivated, ctx |-> NoContext, reads |-> <<"users">>]
             ELSE [error |-> Ok,
                   ctx   |-> [userId |-> userId, role |-> role,
                              active |-> userData.active],
                   reads |-> <<"users">>]

\* async function authenticateUser(request)
authenticateUser(req, usersColl) ==
    IF ~req.auth.present
    THEN [error |-> ErrNoAuth, ctx |-> NoContext, reads |-> <<>>]
    ELSE LET userId   == req.auth.uid
             userData == usersColl[userId]
             role     == Or(req.auth.role, userData.role)
         IN  IF ~userData.exists
             THEN [error |-> ErrUserNotFound, ctx |-> NoContext, reads |-> <<"users">>]
             ELSE IF ~userData.active
             THEN [error |-> ErrDeactivated, ctx |-> NoContext, reads |-> <<"users">>]
             ELSE IF ~Truthy(role) \/ role \notin ROLES
             THEN [error |-> ErrInvalidRole, ctx |-> NoContext, reads |-> <<"users">>]
             ELSE [error |-> Ok,
                   ctx   |-> [userId |-> userId, role |-> role,
                              active |-> userData.active],
                   reads |-> <<"users">>]

\* function requireRole(userContext, requiredRoles)
requireRole(ctx, requiredRoles) ==
    IF ctx.role \notin requiredRoles THEN ErrRoles ELSE Ok

\* function requireMinRole(userContext, minRole)
requireMinRole(ctx, minRole) ==
    LET userLevel     == HierarchyLevel(ctx.role)
        requiredLevel == HierarchyLevel(minRole)
    IN  IF JsLess(userLevel, requiredLevel) THEN ErrMinRole ELSE Ok

\* requireActiveCertificationRound without the test of snapshot.empty
requireActiveCertificationRound_NoEmptyCheck(roundsColl) ==
    LET matching == { r \in RoundIds : roundsColl[r] = "active" }
    IN  IF matching = {}
        THEN { [error |-> Ok, round |-> NoRound] }
        ELSE { [error |-> Ok, round |-> [id |-> r, status |-> roundsColl[r]]] :
                   r \in matching }

\* async function requireActiveCertificationRound(): the outcomes of
\* where("status", "==", "active").limit(1); which matching document comes
\* first is the store's choice
requireActiveCertificationRound(roundsColl) ==
    LET matching == { r \in RoundIds : roundsColl[r] = "active" }
    IN  IF matching = {}
        THEN { [error |-> ErrNoRound, round |-> NoRound] }
        ELSE { [error |-> Ok, round |-> [id |-> r, status |-> roundsColl[r]]] :
                   r \in matching }

\* resourceData[ownerField]
Field(data, ownerField) ==
    CASE ownerField = "createdBy"  -> data.createdBy
      [] ownerField = "assignedTo" -> data.assignedTo
      [] OTHER                     -> Undefined

\* requireOwnership without the sysadmin bypass
requireOwnership_NoBypass(ctx, resourceId, ownerFieldArg, resourcesColl) ==
    LET ownerField  == IF ownerFieldArg = Undefined THEN "createdBy" ELSE ownerFieldArg
        resourceDoc == resourcesColl[resourceId]
    IN  IF ~resourceDoc.exists
        THEN [error |-> ErrNotFound, reads |-> <<"modules">>]
        ELSE IF Field(resourceDoc, ownerField) # ctx.userId
        THEN [error |-> ErrNotOwner, reads |-> <<"modules">>]
        ELSE [error |-> Ok, reads |-> <<"modules">>]

\* requireOwnership that ignores its ownerField argument
requireOwnership_CreatedByOnly(ctx, resourceId, ownerFieldArg, resourcesColl) ==
    IF ctx.role = "sysadmin"
    THEN [error |-> Ok, reads |-> <<>>]
    ELSE LET resourceDoc == resourcesColl[resourceId]
         IN  IF ~resourceDoc.exists
             THEN [error |-> ErrNotFound, reads |-> <<"modules">>]
             ELSE IF resourceDoc.createdBy # ctx.userId
             THEN [error |-> ErrNotOwner, reads |-> <<"modules">>]
             ELSE [error |-> Ok, reads |-> <<"modules">>]

\* async function requireOwnership(userContext, resourceType, resourceId,
\*                                 ownerField = "createdBy")
requireOwnership(ctx, resourceId, ownerFieldArg, resourcesColl) ==
    LET ownerField == IF ownerFieldArg = Undefined THEN "createdBy" ELSE ownerFieldArg
    IN  IF ctx.role = "sysadmin"
        THEN [error |-> Ok, reads |-> <<>>]
        ELSE LET resourceDoc == resourcesColl[resourceId]
             IN  IF ~resourceDoc.exists
                 THEN [error |-> ErrNotFound, reads |-> <<"modules">>]
                 ELSE IF Field(resourceDoc, ownerField) # ctx.userId
                 THEN [error |-> ErrNotOwner, reads |-> <<"modules">>]
                 ELSE [error |-> Ok, reads |-> <<"modules">>]

----------------------------------------------------------------------------
\* State after construction: no profile, no resource, no round active,
\* no invocation in progress

Check(name, err) == [name |-> name, ok |-> err = Ok]

InitAuth ==
    /\ users       = [u \in UserIds |-> NoProfile]
    /\ rounds      = [r \in RoundIds |-> "closed"]
    /\ resources   = [m \in ResourceIds |-> NoResource]
    /\ pc          = "idle"
    /\ request     = [auth |-> NoAuth]
    /\ options     = NoOptions
    /\ userContext = NoContext
    /\ activeRound = NoRound
    /\ error       = Null
    /\ checks      = <<>>
    /\ reads       = <<>>

----------------------------------------------------------------------------
\* authorizeRequest(request, options), one action per stretch of code
\* between two suspension points

\* Step 1: const userContext = await authenticateUser(request)
Authenticate(req, opts) ==
    /\ UNCHANGED <<call, validation, noteVars, guardVars, auditVars, handlers>>
    /\ pc = "idle"
    /\ LET r == authenticateUser(req, users)
       IN  /\ request'     = req
           /\ options'     = opts
           /\ checks'      = <<Check("authenticate", r.error)>>
           /\ reads'       = r.reads
           /\ userContext' = r.ctx
           /\ activeRound' = NoRound
           /\ error'       = IF r.error = Ok THEN Null ELSE r.error
           /\ pc'          = IF r.error = Ok THEN "roles" ELSE "failed"
    /\ UNCHANGED <<users, rounds, resources>>

\* Step 2 with the min-role check ahead of the role-set check
CheckRoles_MinRoleFirst ==
    /\ UNCHANGED <<call, validation, noteVars, guardVars, auditVars, handlers>>
    /\ pc = "roles"
    /\ LET roleErr == IF options.requireRoles.set
                      THEN requireRole(userContext, options.requireRoles.roles)
                      ELSE Ok
           minErr  == IF Truthy(options.requireMinRole)
                      THEN requireMinRole(userContext, options.requireMinRole)
                      ELSE Ok
           roleChk == IF options.requireRoles.set
                      THEN <<Check("requireRole", roleErr)>> ELSE <<>>
           minChk  == IF Truthy(options.requireMinRole)
                      THEN <<Check("requireMinRole", minErr)>> ELSE <<>>
       IN  IF minErr # Ok
           THEN /\ checks' = checks \o minChk
                /\ error'  = minErr
                /\ pc'     = "failed"
           ELSE IF roleErr # Ok
           THEN /\ checks' = checks \o minChk \o roleChk
                /\ error'  = roleErr
                /\ pc'     = "failed"
           ELSE /\ checks' = checks \o minChk \o roleChk
                /\ error'  = error
                /\ pc'     = "round"
    /\ UNCHANGED <<users, rounds, resources, request, options, userContext,
                   activeRound, reads>>

\* Step 2: requireRole if requireRoles, then requireMinRole if minRole
CheckRoles ==
    /\ UNCHANGED <<call, validation, noteVars, guardVars, auditVars, handlers>>
    /\ pc = "roles"
    /\ LET roleErr == IF options.requireRoles.set
                      THEN requireRole(userContext, options.requireRoles.roles)
                      ELSE Ok
           minErr  == IF Truthy(options.requireMinRole)
                      THEN requireMinRole(userContext, options.requireMinRole)
                      ELSE Ok
           roleChk == IF options.requireRoles.set
                      THEN <<Check("requireRole", roleErr)>> ELSE <<>>
           minChk  == IF Truthy(options.requireMinRole)
                      THEN <<Check("requireMinRole", minErr)>> ELSE <<>>
       IN  IF roleErr # Ok
           THEN /\ checks' = checks \o roleChk
                /\ error'  = roleErr
                /\ pc'     = "failed"
           ELSE IF minErr # Ok
           THEN /\ checks' = checks \o roleChk \o minChk
                /\ error'  = minErr
                /\ pc'     = "failed"
           ELSE /\ checks' = checks \o roleChk \o minChk
                /\ error'  = error
                /\ pc'     = "round"
    /\ UNCHANGED <<users, rounds, resources, request, options, userContext,
                   activeRound, reads>>

\* Step 3: if (requireActiveRound) activeRound = await requireActive...()
CheckRound ==
    /\ UNCHANGED <<call, validation, noteVars, guardVars, auditVars, handlers>>
    /\ pc = "round"
    /\ IF options.requireActiveRound
       THEN \E r \in requireActiveCertificationRound(rounds) :
               /\ checks'      = Append(checks, Check("requireActiveRound", r.error))
               /\ reads'       = Append(reads, "certificationRounds")
               /\ activeRound' = r.round
               /\ error'       = IF r.error = Ok THEN error ELSE r.error
               /\ pc'          = IF r.error = Ok THEN "ownership" ELSE "failed"
       ELSE /\ pc' = "ownership"
            /\ UNCHANGED <<checks, reads, activeRound, error>>
    /\ UNCHANGED <<users, rounds, resources, request, options, userContext>>

\* Step 4: if (ownership) await requireOwnership(...), then return
CheckOwnership ==
    /\ UNCHANGED <<call, validation, noteVars, guardVars, auditVars, handlers>>
    /\ pc = "ownership"
    /\ IF options.requireOwnership.set
       THEN LET r == requireOwnership(userContext,
                                      options.requireOwnership.resourceId,
                                      options.requireOwnership.ownerField,
                                      resources)
            IN  /\ checks' = Append(checks, Check("requireOwnership", r.error))
                /\ reads'  = reads \o r.reads
                /\ error'  = IF r.error = Ok THEN error ELSE r.error
                /\ pc'     = IF r.error = Ok THEN "done" ELSE "failed"
       ELSE /\ pc' = "done"
            /\ UNCHANGED <<checks, reads, error>>
    /\ UNCHANGED <<users, rounds, resources, request, options, userContext,
                   activeRound>>

\* the caller has the result (or the error); the next request may come
Return ==
    /\ UNCHANGED <<call, validation, noteVars, guardVars, auditVars, handlers>>
    /\ pc \in {"done", "failed"}
    /\ pc'          = "idle"
    /\ request'     = [auth |-> NoAuth]
    /\ options'     = NoOptions
    /\ userContext' = NoContext
    /\ activeRound' = NoRound
    /\ error'       = Null
    /\ checks'      = <<>>
    /\ reads'       = <<>>
    /\ UNCHANGED <<users, rounds, resources>>

----------------------------------------------------------------------------
\* External actors: the lifecycle of profiles, rounds and resources is
\* outside the middleware and runs concurrently with it

ExtSetUser(u, p) ==
    /\ UNCHANGED <<call, validation, noteVars, guardVars, auditVars, handlers>>
    /\ users' = [users EXCEPT ![u] = p]
    /\ UNCHANGED <<rounds, resources, pc, request, options, userContext,
                   activeRound, error, checks, reads>>

ExtSetRound(r, s) ==
    /\ UNCHANGED <<call, validation, noteVars, guardVars, auditVars, handlers>>
    /\ rounds' = [rounds EXCEPT ![r] = s]
    /\ UNCHANGED <<users, resources, pc, request, options, userContext,
                   activeRound, error, checks, reads>>

ExtSetResource(m, d) ==
    /\ UNCHANGED <<call, validation, noteVars, guardVars, auditVars, handlers>>
    /\ resources' = [resources EXCEPT ![m] = d]
    /\ UNCHANGED <<users, rounds, pc, request, options, userContext,
                   activeRound, error, checks, reads>>

----------------------------------------------------------------------------
\* Direct calls of the exported synchronous helpers

AnyRoles == ROLES \cup {"hacker", "guest", "viewer", "constructor", "toString",
                        Undefined, ""}

CallRequireMinRole(role, minRole) ==
    /\ call' = [fn |-> "requireMinRole", role |-> role, minRole |-> minRole,
                roles |-> {},
                result |-> requireMinRole([userId |-> "u1", role |-> role,
                                           active |-> TRUE], minRole)]
    /\ UNCHANGED <<authVars, validation, noteVars, guardVars, auditVars, handlers>>

CallRequireRole(role, requiredRoles) ==
    /\ call' = [fn |-> "requireRole", role |-> role, minRole |-> Undefined,
                roles |-> requiredRoles,
                result |-> requireRole([userId |-> "u1", role |-> role,
                                        active |-> TRUE], requiredRoles)]
    /\ UNCHANGED <<authVars, validation, noteVars, guardVars, auditVars, handlers>>

----------------------------------------------------------------------------
\* Notes endpoints.  A string is the sequence of its characters.

MaxNotes == 2           \* documents the notes collection may hold

TitleMin   == 3         \* trimmedTitle.length < 3
ContentMin == 10        \* trimmedContent.length < 10
TitleMax   == 200       \* documented: "Title: 3-200 characters"
ContentMax == 5000      \* documented: "Content: 10-5000 characters"

RECURSIVE Rep(_, _)
Rep(c, n) == IF n = 0 THEN <<>> ELSE <<c>> \o Rep(c, n - 1)

\* l blanks, n letters, r blanks
Pad(l, n, r) == Rep(" ", l) \o Rep("a", n) \o Rep(" ", r)

IsSpace(c) == c \in {" ", "\t", "\n"}

RECURSIVE TrimStart(_)
TrimStart(str) ==
    IF str # <<>> /\ IsSpace(Head(str)) THEN TrimStart(Tail(str)) ELSE str

RECURSIVE TrimEnd(_)
TrimEnd(str) ==
    IF str # <<>> /\ IsSpace(str[Len(str)])
    THEN TrimEnd(SubSeq(str, 1, Len(str) - 1)) ELSE str

\* String.prototype.trim
Trim(str) == TrimEnd(TrimStart(str))

\* values of request.data.title / request.data.content
JsUndefined == [t |-> "undefined", s |-> <<>>]
JsNumber    == [t |-> "number", s |-> <<>>]          \* a non-zero number
JsString(str) == [t |-> "string", s |-> str]

\* !value
Falsy(v) == v.t = "undefined" \/ (v.t = "string" /\ v.s = <<>>)

TitleInputs ==
    { JsUndefined, JsNumber, JsString(<<>>), JsString(Pad(2, 0, 0)),
      JsString(Pad(0, 2, 0)), JsString(Pad(1, 2, 2)), JsString(Pad(1, 3, 1)),
      JsString(Pad(0, TitleMax + 1, 0)) }

ContentInputs ==
    { JsUndefined, JsNumber, JsString(Pad(3, 0, 0)), JsString(Pad(0, 5, 0)),
      JsString(Pad(1, 9, 1)), JsString(Pad(1, 10, 1)) }

\* request.auth of the callers: one without and one with a token
NoteCallers == { NoAuth, [present |-> TRUE, uid |-> "u1", role |-> Undefined] }

\* what the store does with a call of this request
StoreOutcomes == {"ok", "add fails", "get fails"}

\* what the store does with the query of readNotes; the last one is an
\* error whose message is empty
ReadOutcomes == {"ok", "get fails", "get fails without message"}

MsgStoreError     == "14 UNAVAILABLE: firestore unreachable"
MsgCreateFailed   == "Failed to create note"
MsgReadFailed     == "Failed to read notes"
MsgTypeError      == "title.trim is not a function"
MsgContentTypeError == "content.trim is not a function"
MsgTitleRequired  == "Title is required"
MsgContentRequired == "Content is required"
MsgTitleShort     == "Title must be at least 3 characters long"
MsgContentShort   == "Content must be at least 10 characters long"
MsgCreated        == "Note created successfully"

NoNote == [id |-> 0, title |-> <<>>, content |-> <<>>, createdAt |-> Null,
           updatedAt |-> Null, status |-> Null]

NoNoteCall == [title |-> JsUndefined, content |-> JsUndefined]

NoResult == [op |-> Null, success |-> FALSE, code |-> Null, message |-> Null,
             note |-> NoNote, notes |-> <<>>, count |-> 0]

HttpsError(op, code, message) ==
    [NoResult EXCEPT !.op = op, !.code = code, !.message = message]

\* new HttpsError('internal', error.message || fallback)
InternalError(op, message, fallback) ==
    HttpsError(op, "internal", Or(message, fallback))

\* createNote that checks the length of the title before it looks at the
\* content
ValidateNote_TitleLengthFirst(title, content) ==
    IF Falsy(title) THEN [code |-> "invalid-argument", message |-> MsgTitleRequired]
    ELSE IF title.t # "string" THEN [code |-> "internal", message |-> MsgTypeError]
    ELSE IF Trim(title.s) = <<>> THEN [code |-> "invalid-argument", message |-> MsgTitleRequired]
    ELSE IF Len(Trim(title.s)) < TitleMin THEN [code |-> "invalid-argument", message |-> MsgTitleShort]
    ELSE IF Falsy(content) THEN [code |-> "invalid-argument", message |-> MsgContentRequired]
    ELSE IF content.t # "string" THEN [code |-> "internal", message |-> MsgContentTypeError]
    ELSE IF Trim(content.s) = <<>> THEN [code |-> "invalid-argument", message |-> MsgContentRequired]
    ELSE IF Len(Trim(content.s)) < ContentMin THEN [code |-> "invalid-argument", message |-> MsgContentShort]
    ELSE [code |-> Ok, message |-> Ok]

\* the checks of createNote ahead of the write: the HttpsError or the
\* TypeError they throw, Ok if they pass
ValidateNote(title, content) ==
    IF Falsy(title) THEN [code |-> "invalid-argument", message |-> MsgTitleRequired]
    ELSE IF title.t # "string" THEN [code |-> "internal", message |-> MsgTypeError]
    ELSE IF Trim(title.s) = <<>> THEN [code |-> "invalid-argument", message |-> MsgTitleRequired]
    ELSE IF Falsy(content) THEN [code |-> "invalid-argument", message |-> MsgContentRequired]
    ELSE IF content.t # "string" THEN [code |-> "internal", message |-> MsgContentTypeError]
    ELSE IF Trim(content.s) = <<>> THEN [code |-> "invalid-argument", message |-> MsgContentRequired]
    ELSE IF Len(Trim(title.s)) < TitleMin THEN [code |-> "invalid-argument", message |-> MsgTitleShort]
    ELSE IF Len(Trim(content.s)) < ContentMin THEN [code |-> "invalid-argument", message |-> MsgContentShort]
    ELSE [code |-> Ok, message |-> Ok]

\* export const createNote = onCall(..., async (request) => ...)
CreateNote(auth, title, content, outcome) ==
    /\ Len(notes) < MaxNotes
    /\ LET v    == ValidateNote(title, content)
           note == [id |-> Len(notes) + 1, title |-> Trim(title.s),
                    content |-> Trim(content.s), createdAt |-> "timestamp",
                    updatedAt |-> "timestamp", status |-> "active"]
       IN  IF v.code # Ok
           THEN /\ noteResult' =
                       IF v.code = "internal"
                       THEN InternalError("createNote", v.message, MsgCreateFailed)
                       ELSE HttpsError("createNote", v.code, v.message)
                /\ UNCHANGED <<notes, noteWrites>>
           ELSE IF outcome = "add fails"
           THEN /\ noteResult' =
                       InternalError("createNote", MsgStoreError, MsgCreateFailed)
                /\ UNCHANGED <<notes, noteWrites>>
           ELSE /\ notes'      = Append(notes, note)
                /\ noteWrites' = Append(noteWrites,
                                        [handler |-> "createNote",
                                         id |-> note.id,
                                         returned |-> outcome = "ok",
                                         callerAuthenticated |-> auth.present,
                                         authorizeRequestCalled |-> FALSE])
                /\ noteResult' =
                       IF outcome = "get fails"
                       THEN InternalError("createNote", MsgStoreError, MsgCreateFailed)
                       ELSE [NoResult EXCEPT !.op = "createNote", !.success = TRUE,
                                             !.note = note, !.message = MsgCreated]
    /\ noteCall' = [title |-> title, content |-> content]
    /\ UNCHANGED <<authVars, validation, call, guardVars, auditVars, handlers>>

\* export const readNotes = onCall(..., async (request) => ...)
ReadNotes(outcome) ==
    /\ noteResult' =
           IF outcome = "ok"
           THEN [NoResult EXCEPT !.op = "readNotes", !.success = TRUE,
                                 !.notes = notes, !.count = Len(notes)]
           ELSE InternalError("readNotes",
                              IF outcome = "get fails" THEN MsgStoreError ELSE "",
                              MsgReadFailed)
    /\ UNCHANGED <<notes, noteWrites, noteCall, authVars, validation, call, guardVars,
                   auditVars, handlers>>

----------------------------------------------------------------------------
\* Abuse guard: checkRateLimit over the module-level Map rateLimitStore

MaxTime == 3            \* Date.now() runs over 0..MaxTime

GuardUsers   == {"u1", "u2"}
GuardActions == {"createModule"}
MaxRequestsArgs == {0, 1, 2}
WindowArgs      == {2, 3}

\* `${userId}:${action}`
RateKey(userId, action) == userId \o ":" \o action

\* the recorded timestamps of a key that are younger than windowMs
YoungOf(key, windowMs) ==
    IF key \in DOMAIN rateLimitStore
    THEN LET Young(t) == now - t < windowMs
         IN  SelectSeq(rateLimitStore[key], Young)
    ELSE <<>>

NoRateCall == [userId |-> Null, action |-> Null, maxRequests |-> 0,
               windowMs |-> 0, ok |-> FALSE, n |-> 0]

\* checkRateLimit that counts every recorded timestamp, young or old
checkRateLimit_NoPrune(userId, action, maxRequests, windowMs) ==
    LET key    == RateKey(userId, action)
        called == [userId |-> userId, action |-> action,
                   maxRequests |-> maxRequests, windowMs |-> windowMs,
                   ok |-> TRUE, n |-> 1 - rateCall.n]
    IN  IF key \notin DOMAIN rateLimitStore
        THEN /\ rateLimitStore' = [k \in DOMAIN rateLimitStore \cup {key} |->
                                      IF k = key THEN <<now>> ELSE rateLimitStore[k]]
             /\ rateCall' = called
        ELSE LET timestamps == rateLimitStore[key]
             IN  IF Len(timestamps) >= maxRequests
                 THEN /\ rateCall' = [called EXCEPT !.ok = FALSE]
                      /\ UNCHANGED rateLimitStore
                 ELSE /\ rateLimitStore' =
                             [rateLimitStore EXCEPT ![key] = Append(timestamps, now)]
                      /\ rateCall' = called

\* checkRateLimit that rejects only when the count is above maxRequests
checkRateLimit_OffByOne(userId, action, maxRequests, windowMs) ==
    LET key    == RateKey(userId, action)
        called == [userId |-> userId, action |-> action,
                   maxRequests |-> maxRequests, windowMs |-> windowMs,
                   ok |-> TRUE, n |-> 1 - rateCall.n]
    IN  IF key \notin DOMAIN rateLimitStore
        THEN /\ rateLimitStore' = [k \in DOMAIN rateLimitStore \cup {key} |->
                                      IF k = key THEN <<now>> ELSE rateLimitStore[k]]
             /\ rateCall' = called
        ELSE LET Young(t)   == now - t < windowMs
                 timestamps == SelectSeq(rateLimitStore[key], Young)
             IN  IF Len(timestamps) > maxRequests
                 THEN /\ rateCall' = [called EXCEPT !.ok = FALSE]
                      /\ UNCHANGED rateLimitStore
                 ELSE /\ rateLimitStore' =
                             [rateLimitStore EXCEPT ![key] = Append(timestamps, now)]
                      /\ rateCall' = called

\* function checkRateLimit(userId, action, maxRequests, windowMs)
checkRateLimit(userId, action, maxRequests, windowMs) ==
    LET key    == RateKey(userId, action)
        called == [userId |-> userId, action |-> action,
                   maxRequests |-> maxRequests, windowMs |-> windowMs,
                   ok |-> TRUE, n |-> 1 - rateCall.n]
    IN  IF key \notin DOMAIN rateLimitStore
        THEN /\ rateLimitStore' = [k \in DOMAIN rateLimitStore \cup {key} |->
                                      IF k = key THEN <<now>> ELSE rateLimitStore[k]]
             /\ rateCall' = called
        ELSE LET Young(t)   == now - t < windowMs
                 timestamps == SelectSeq(rateLimitStore[key], Young)
             IN  IF Len(timestamps) >= maxRequests
                 THEN /\ rateCall' = [called EXCEPT !.ok = FALSE]
                      /\ UNCHANGED rateLimitStore
                 ELSE /\ rateLimitStore' =
                             [rateLimitStore EXCEPT ![key] = Append(timestamps, now)]
                      /\ rateCall' = called

NoRateSeen == [at |-> 0, present |-> FALSE, before |-> <<>>, afterRejection |-> FALSE]

\* a call of checkRateLimit; rateSeen keeps the time of the call, the
\* key's entry as the call found it, and whether the call before it was a
\* rejection of the same key
GuardCall(userId, action, maxRequests, windowMs) ==
    /\ checkRateLimit(userId, action, maxRequests, windowMs)
    /\ LET key == RateKey(userId, action)
       IN  rateSeen' =
               [at      |-> now,
                present |-> key \in DOMAIN rateLimitStore,
                before  |-> IF key \in DOMAIN rateLimitStore
                            THEN rateLimitStore[key] ELSE <<>>,
                afterRejection |->
                    /\ rateCall.userId = userId
                    /\ rateCall.action = action
                    /\ ~rateCall.ok]
    /\ UNCHANGED <<now, dupVars, authVars, validation, call, noteVars, auditVars>>

\* checkRateLimit called outside the request handlers below
CheckRateLimit(userId, action, maxRequests, windowMs) ==
    /\ GuardCall(userId, action, maxRequests, windowMs)
    /\ UNCHANGED handlers

\* time passes between calls
Tick ==
    /\ now < MaxTime
    /\ now' = now + 1
    /\ UNCHANGED <<rateVars, dupVars, authVars, validation, call, noteVars, auditVars,
                   handlers>>

----------------------------------------------------------------------------
\* Abuse guard: checkDuplicateContent over the module-level Map
\* recentContentHashes.  User ids and contents are character sequences.

PrefixLen == 100        \* content.substring(0, 100)

\* content.substring(0, 100)
Prefix(content) ==
    SubSeq(content, 1, IF Len(content) < PrefixLen THEN Len(content) ELSE PrefixLen)

\* `${userId}:${content.substring(0, 100)}`
ContentHash(userId, content) == userId \o <<":">> \o Prefix(content)

LongX == Rep("a", 100) \o <<"x">>     \* two contents that differ only
LongY == Rep("a", 100) \o <<"y">>     \* after character 100

\* the (userId, content) pairs submitted
DupSubmissions ==
    { [userId |-> <<"u">>,      content |-> LongX],
      [userId |-> <<"u">>,      content |-> LongY],
      [userId |-> <<"u">>,      content |-> <<"b">>],
      [userId |-> <<"u">>,      content |-> <<":", "b">>],
      [userId |-> <<"u", ":">>, content |-> <<"b">>] }

DupActions == {"createComment", "createModule"}
DupWindows == {1, 2, 4}

NoDupCall == [userId |-> <<>>, content |-> <<>>, action |-> Null, windowMs |-> 0,
              ok |-> FALSE, n |-> 0]

\* the map without the entries the clean-up loop deletes
Sweep(map, windowMs) ==
    LET kept == { k \in DOMAIN map : ~(now - map[k] > windowMs * 2) }
    IN  [k \in kept |-> map[k]]

\* map.set(key, value)
MapSet(map, key, value) ==
    [k \in DOMAIN map \cup {key} |-> IF k = key THEN value ELSE map[k]]

\* checkDuplicateContent that records the time of a rejected submission too
checkDuplicateContent_RefreshOnReject(userId, content, action, windowMs) ==
    LET hash   == ContentHash(userId, content)
        called == [userId |-> userId, content |-> content, action |-> action,
                   windowMs |-> windowMs, ok |-> TRUE, n |-> 1 - dupCall.n]
    IN  IF /\ hash \in DOMAIN recentContentHashes
           /\ now - recentContentHashes[hash] < windowMs
        THEN /\ dupCall' = [called EXCEPT !.ok = FALSE]
             /\ recentContentHashes' = MapSet(recentContentHashes, hash, now)
        ELSE /\ recentContentHashes' =
                    Sweep(MapSet(recentContentHashes, hash, now), windowMs)
             /\ dupCall' = called

\* function checkDuplicateContent(userId, content, action, windowMs)
checkDuplicateContent(userId, content, action, windowMs) ==
    LET hash   == ContentHash(userId, content)
        called == [userId |-> userId, content |-> content, action |-> action,
                   windowMs |-> windowMs, ok |-> TRUE, n |-> 1 - dupCall.n]
    IN  IF /\ hash \in DOMAIN recentContentHashes
           /\ now - recentContentHashes[hash] < windowMs
        THEN /\ dupCall' = [called EXCEPT !.ok = FALSE]
             /\ UNCHANGED recentContentHashes
        ELSE /\ recentContentHashes' =
                    Sweep(MapSet(recentContentHashes, hash, now), windowMs)
             /\ dupCall' = called

\* a call of checkDuplicateContent; dupAccepted keeps, per user and
\* content prefix, the time of the last call that was accepted
CheckDuplicateContent(userId, content, action, windowMs) ==
    /\ checkDuplicateContent(userId, content, action, windowMs)
    /\ dupAccepted' = IF dupCall'.ok
                      THEN MapSet(dupAccepted, <<userId, Prefix(content)>>, now)
                      ELSE dupAccepted
    /\ UNCHANGED <<now, rateVars, authVars, validation, call, noteVars, auditVars, handlers>>

----------------------------------------------------------------------------
----------------------------------------------------------------------------
\* Concurrent request handlers calling checkRateLimit.  The function has no
\* await: a handler that reaches the call runs it to completion before any
\* other handler of the process runs.

HandlerIds  == {"h1", "h2"}
RaceUsers   == {"u1"}
RaceMaxRequests == {1, 2}
RaceWindows == {2}

IdleHandler == [pc |-> "idle", userId |-> Null, action |-> Null,
                maxRequests |-> 0, windowMs |-> 0, under |-> FALSE, ok |-> FALSE]

\* what checkRateLimit would decide for the key in the current state
UnderLimit(key, maxRequests, windowMs) ==
    \/ key \notin DOMAIN rateLimitStore
    \/ Len(YoungOf(key, windowMs)) < maxRequests

\* a request arrives at handler h; under keeps what the store showed then
Arrive(h, userId, action, maxRequests, windowMs) ==
    /\ handlers[h].pc = "idle"
    /\ handlers' = [handlers EXCEPT ![h] =
           [pc |-> "pending", userId |-> userId, action |-> action,
            maxRequests |-> maxRequests, windowMs |-> windowMs,
            under |-> UnderLimit(RateKey(userId, action), maxRequests, windowMs),
            ok |-> FALSE]]
    /\ UNCHANGED <<guardVars, authVars, validation, call, noteVars, auditVars>>

\* a handler that decides on what the store showed when its request
\* arrived and appends afterwards
Run_StaleRead(h) ==
    /\ handlers[h].pc = "pending"
    /\ LET r   == handlers[h]
           key == RateKey(r.userId, r.action)
       IN  /\ rateLimitStore' =
                 IF r.under
                 THEN [k \in DOMAIN rateLimitStore \cup {key} |->
                          IF k = key THEN Append(YoungOf(key, r.windowMs), now)
                          ELSE rateLimitStore[k]]
                 ELSE rateLimitStore
           /\ rateCall' = [userId |-> r.userId, action |-> r.action,
                           maxRequests |-> r.maxRequests, windowMs |-> r.windowMs,
                           ok |-> r.under, n |-> 1 - rateCall.n]
           /\ handlers' = [handlers EXCEPT ![h].pc = "done", ![h].ok = r.under]
    /\ UNCHANGED <<rateSeen, now, dupVars, authVars, validation, call, noteVars, auditVars>>

\* handler h calls checkRateLimit
Run(h) ==
    /\ handlers[h].pc = "pending"
    /\ LET r == handlers[h]
       IN  GuardCall(r.userId, r.action, r.maxRequests, r.windowMs)
    /\ handlers' = [handlers EXCEPT ![h].pc = "done", ![h].ok = rateCall'.ok]

\* handler h sends its response
Finish(h) ==
    /\ handlers[h].pc = "done"
    /\ handlers' = [handlers EXCEPT ![h] = IdleHandler]
    /\ UNCHANGED <<guardVars, authVars, validation, call, noteVars, auditVars>>

----------------------------------------------------------------------------
\* Audit log helper: logAudit writes one entry to the collection
\* "auditLogs"; everything it does is inside its try block.

MaxAuditLogs == 2       \* entries written to "auditLogs"

AuditActions  == {"CREATE_MODULE", "DELETE_USER"}
NoAuditContext     == [present |-> FALSE, userId |-> Undefined, email |-> Undefined,
                  role |-> Undefined]
AuditContexts == { NoAuditContext,
                   [present |-> TRUE, userId |-> "u1", email |-> "u1@example.org",
                    role |-> "constructor"] }
EmptyDetails  == [kind |-> "object", ipAddress |-> Undefined]
AuditDetails  == { [kind |-> "undefined", ipAddress |-> Undefined],
                   [kind |-> "null", ipAddress |-> Undefined],
                   EmptyDetails,
                   [kind |-> "object", ipAddress |-> "10.0.0.1"] }
AuditOutcomes == {"ok", "unavailable", "rejected"}

NoAuditCall == [action |-> Null, outcome |-> Null, completion |-> Null,
                logged |-> Null, n |-> 0]

\* what the try block throws: reading a property of undefined or null
\* while the entry is built, or the failure of add()
AuditThrown(context, details, outcome) ==
    IF ~context.present THEN "TypeError"
    ELSE IF details.kind = "null" THEN "TypeError"
    ELSE IF outcome # "ok" THEN outcome
    ELSE Null

\* the entry passed to add()
AuditEntry(action, context, resourceType, resourceId, details) ==
    [action |-> action, userId |-> context.userId,
     userEmail |-> context.email, userRole |-> context.role,
     resourceType |-> resourceType, resourceId |-> resourceId,
     details |-> details, ipAddress |-> Or(details.ipAddress, Null)]

\* logAudit whose catch block throws the error again
logAudit_Rethrow(action, context, resourceType, resourceId, detailsArg, outcome) ==
    LET details == IF detailsArg.kind = "undefined" THEN EmptyDetails ELSE detailsArg
        thrown  == AuditThrown(context, details, outcome)
    IN  /\ auditLogs' =
              IF thrown = Null
              THEN Append(auditLogs, AuditEntry(action, context, resourceType,
                                                resourceId, details))
              ELSE auditLogs
        /\ auditCall' = [action |-> action, outcome |-> outcome,
                         completion |-> IF thrown = Null THEN "returned" ELSE "threw",
                         logged |-> thrown, n |-> 1 - auditCall.n]

\* async function logAudit(action, userContext, resourceType, resourceId,
\* details = {}); outcome is what the store does with the write; logged is
\* the error passed to console.error
logAudit(action, context, resourceType, resourceId, detailsArg, outcome) ==
    LET details == IF detailsArg.kind = "undefined" THEN EmptyDetails ELSE detailsArg
        thrown  == AuditThrown(context, details, outcome)
    IN  /\ auditLogs' =
              IF thrown = Null
              THEN Append(auditLogs, AuditEntry(action, context, resourceType,
                                                resourceId, details))
              ELSE auditLogs
        /\ auditCall' = [action |-> action, outcome |-> outcome,
                         completion |-> "returned",
                         logged |-> thrown, n |-> 1 - auditCall.n]

LogAudit(action, context, details, outcome) ==
    /\ Len(auditLogs) < MaxAuditLogs
    /\ logAudit(action, context, "modules", "m1", details, outcome)
    /\ UNCHANGED <<authVars, validation, call, noteVars, guardVars, handlers>>

----------------------------------------------------------------------------
\* Input validators (validators.js).  A payload field is a value
\* [t, s, n]: its type, its characters if it is a string, its number if it
\* is a number or a date.

VUndef     == [t |-> "undefined", s |-> <<>>, n |-> 0]
VNull      == [t |-> "null", s |-> <<>>, n |-> 0]
VStr(str)  == [t |-> "string", s |-> str, n |-> 0]
VNum(k)    == [t |-> "number", s |-> <<>>, n |-> k]
VDate(k)   == [t |-> "date", s |-> <<>>, n |-> k]     \* a parseable date, day k

\* !value
VFalsy(v) ==
    \/ v.t \in {"undefined", "null"}
    \/ v.t = "string" /\ v.s = <<>>
    \/ v.t = "number" /\ v.n = 0

VALIDATION_RULES ==
    [module |->
         [titleEn |-> [min |-> 3, max |-> 200],
          descriptionEn |-> [min |-> 10, max |-> 5000],
          shortCode |-> [min |-> 2, max |-> 20],
          dqsNumber |-> [min |-> 1, max |-> 50],
          curriculum |-> [max |-> 10000]],
     course |->
         [name |-> [min |-> 3, max |-> 200],
          description |-> [min |-> 10, max |-> 2000]],
     certificationRound |->
         [name |-> [min |-> 3, max |-> 100],
          description |-> [max |-> 1000]],
     comment |-> [text |-> [min |-> 1, max |-> 2000]],
     user |->
         [displayName |-> [min |-> 2, max |-> 100],
          email |-> [max |-> 254]]]

ALLOWED_DOMAINS == { <<"wbscodingschool", ".", "com">>, <<"wbs", ".", "de">> }

Ctrl   == "<BEL>"                          \* a control character
Script == "<script>alert(1)</script>"      \* a script element
HardLimit == 10000                         \* .slice(0, 10000)

Without(str, c) == LET Keep(x) == x # c IN SelectSeq(str, Keep)

\* function sanitizeString(input)
sanitizeString(input) ==
    IF input.t # "string" THEN <<>>
    ELSE LET cleaned == Without(Without(Trim(input.s), Ctrl), Script)
         IN  SubSeq(cleaned, 1, IF Len(cleaned) < HardLimit THEN Len(cleaned)
                                ELSE HardLimit)

\* errors thrown by the validators: the kind of message, the field name in
\* it and the numbers in it
NoError == [kind |-> "none", field |-> "", a |-> 0, b |-> 0]
Err(kind, field, a, b) == [kind |-> kind, field |-> field, a |-> a, b |-> b]
TypeError == Err("TypeError", "", 0, 0)

\* outcome of one field validator: the error thrown or the value returned
Thrown(e)   == [err |-> e, value |-> VNull]
Gives(v) == [err |-> NoError, value |-> v]

\* function validateLength(value, min, max, fieldName); value?.length || 0
validateLength(value, min, max, fieldName) ==
    LET length == IF value.t = "string" THEN Len(value.s) ELSE 0
    IN  IF length < min THEN Err("min", fieldName, min, 0)
        ELSE IF length > max THEN Err("max", fieldName, max, 0)
        ELSE NoError

\* function validateRequired(value, fieldName)
validateRequired(value, fieldName) ==
    LET sanitized == sanitizeString(value)
    IN  IF sanitized = <<>> THEN Thrown(Err("required", fieldName, 0, 0))
        ELSE Gives(VStr(sanitized))

\* function validateOptional(value, min, max, fieldName)
validateOptional(value, min, max, fieldName) ==
    IF VFalsy(value) THEN Gives(VNull)
    ELSE LET sanitized == sanitizeString(value)
         IN  IF sanitized = <<>> THEN Gives(VNull)
             ELSE LET e == validateLength(VStr(sanitized), min, max, fieldName)
                  IN  IF e # NoError THEN Thrown(e) ELSE Gives(VStr(sanitized))

\* function validateNumber(value, min, max, fieldName); Number(value) of a
\* non-numeric string is NaN
validateNumber(value, min, max, fieldName) ==
    IF value.t # "number" THEN Thrown(Err("number", fieldName, 0, 0))
    ELSE IF value.n < min \/ value.n > max THEN Thrown(Err("range", fieldName, min, max))
    ELSE Gives(VNum(value.n))

\* data.x ? validateNumber(data.x, min, max, fieldName) : null
OptionalNumber(value, min, max, fieldName) ==
    IF VFalsy(value) THEN Gives(VNull) ELSE validateNumber(value, min, max, fieldName)

\* function validateDate(dateValue, fieldName)
validateDate(dateValue, fieldName) ==
    IF VFalsy(dateValue) THEN Thrown(Err("date required", fieldName, 0, 0))
    ELSE IF dateValue.t \notin {"number", "date"}
    THEN Thrown(Err("date invalid", fieldName, 0, 0))
    ELSE Gives(VDate(dateValue.n))

ValidRoles == {"sysadmin", "programOwner", "operations"}

\* function validateEnum(value, allowedValues, fieldName); the value is a
\* one-word string
validateEnum(value, allowedValues, fieldName) ==
    IF value.t = "string" /\ Len(value.s) = 1 /\ value.s[1] \in allowedValues
    THEN Gives(value)
    ELSE Thrown(Err("enum", fieldName, 0, 0))

\* toLowerCase on the words emails are made of
Lower(w) == CASE w = "WBS" -> "wbs" [] w = "DE" -> "de" [] OTHER -> w

\* /^[^\s@]+@[^\s@]+\.[^\s@]+$/ on a sequence of words, "@" and "."
EmailFormat(str) ==
    /\ \A i \in 1..Len(str) : ~IsSpace(str[i])
    /\ Cardinality({ i \in 1..Len(str) : str[i] = "@" }) = 1
    /\ LET at == CHOOSE i \in 1..Len(str) : str[i] = "@"
       IN  /\ at > 1
           /\ \E d \in (at + 2)..(Len(str) - 1) : str[d] = "."

\* function validateEmail(email)
validateEmail(email) ==
    IF VFalsy(email) \/ email.t # "string" THEN Thrown(Err("email required", "", 0, 0))
    ELSE LET trimmedEmail == [i \in 1..Len(Trim(email.s)) |-> Lower(Trim(email.s)[i])]
         IN  IF ~EmailFormat(trimmedEmail) THEN Thrown(Err("email format", "", 0, 0))
             ELSE LET at     == CHOOSE i \in 1..Len(trimmedEmail) : trimmedEmail[i] = "@"
                      domain == SubSeq(trimmedEmail, at + 1, Len(trimmedEmail))
                  IN  IF domain \notin ALLOWED_DOMAINS
                      THEN Thrown(Err("email domain", "", 0, 0))
                      ELSE Gives(VStr(trimmedEmail))

\* the error of the first outcome that threw, NoError if none did
RECURSIVE FirstError(_)
FirstError(outcomes) ==
    IF outcomes = <<>> THEN NoError
    ELSE IF Head(outcomes).err # NoError THEN Head(outcomes).err
    ELSE FirstError(Tail(outcomes))

\* result of a validate<Type>Input call
NoRecord == <<>>
Fails(e)       == [threw |-> TRUE, error |-> e, record |-> NoRecord]
Validated(rec) == [threw |-> FALSE, error |-> NoError, record |-> rec]

\* function validateModuleInput(data)
validateModuleInput(data) ==
    LET rules == VALIDATION_RULES.module
        titleEn       == validateRequired(data.titleEn, "English Title")
        descriptionEn == validateRequired(data.descriptionEn, "English Description")
        shortCode     == validateOptional(data.shortCode, rules.shortCode.min,
                                          rules.shortCode.max, "Short Code")
        dqsNumber     == validateOptional(data.dqsNumber, rules.dqsNumber.min,
                                          rules.dqsNumber.max, "DQS Number")
        bkz           == validateOptional(data.bkz, 1, 50, "BKZ")
        pricePerUE    == OptionalNumber(data.pricePerUE, 0, 1000000, "Price per UE")
        pricePerModule == OptionalNumber(data.pricePerModule, 0, 1000000,
                                         "Price per Module")
        ue45          == OptionalNumber(data.ue45, 1, 1000, "UE in 45 Min")
        weeks         == OptionalNumber(data.weeks, 1, 104, "Weeks")
        curriculum    == validateOptional(data.curriculum, 0, rules.curriculum.max,
                                          "Curriculum")
        nrMab         == validateOptional(data.nrMab, 0, 50, "Nr MAB")
        certificate   == validateOptional(data.certificate, 0, 200, "Certificate")
        thrown        == FirstError(<<titleEn, descriptionEn, shortCode, dqsNumber,
                                      bkz, pricePerUE, pricePerModule, ue45, weeks,
                                      curriculum, nrMab, certificate>>)
        titleLength   == validateLength(titleEn.value, rules.titleEn.min,
                                        rules.titleEn.max, "English Title")
        descriptionLength ==
            validateLength(descriptionEn.value, rules.descriptionEn.min,
                           rules.descriptionEn.max, "English Description")
    IN  IF thrown # NoError THEN Fails(thrown)
        ELSE IF titleLength # NoError THEN Fails(titleLength)
        ELSE IF descriptionLength # NoError THEN Fails(descriptionLength)
        ELSE Validated([titleEn |-> titleEn.value,
                        descriptionEn |-> descriptionEn.value,
                        shortCode |-> shortCode.value, dqsNumber |-> dqsNumber.value,
                        bkz |-> bkz.value, pricePerUE |-> pricePerUE.value,
                        pricePerModule |-> pricePerModule.value, ue45 |-> ue45.value,
                        weeks |-> weeks.value, curriculum |-> curriculum.value,
                        nrMab |-> nrMab.value, certificate |-> certificate.value])

\* function validateCourseInput(data)
validateCourseInput(data) ==
    LET rules       == VALIDATION_RULES.course
        name        == validateRequired(data.name, "Course Name")
        description == validateRequired(data.description, "Course Description")
        thrown      == FirstError(<<name, description>>)
        nameLength  == validateLength(name.value, rules.name.min, rules.name.max,
                                      "Course Name")
        descriptionLength ==
            validateLength(description.value, rules.description.min,
                           rules.description.max, "Course Description")
    IN  IF thrown # NoError THEN Fails(thrown)
        ELSE IF nameLength # NoError THEN Fails(nameLength)
        ELSE IF descriptionLength # NoError THEN Fails(descriptionLength)
        ELSE Validated([name |-> name.value, description |-> description.value])

\* function validateCertificationRoundInput(data)
validateCertificationRoundInput(data) ==
    LET rules       == VALIDATION_RULES.certificationRound
        name        == validateRequired(data.name, "Round Name")
        description == validateOptional(data.description, 0, rules.description.max,
                                        "Description")
        startDate   == validateDate(data.startDate, "Start Date")
        dueDate     == validateDate(data.dueDate, "Due Date")
        thrown      == FirstError(<<name, description, startDate, dueDate>>)
        nameLength  == validateLength(name.value, rules.name.min, rules.name.max,
                                      "Round Name")
    IN  IF thrown # NoError THEN Fails(thrown)
        ELSE IF nameLength # NoError THEN Fails(nameLength)
        ELSE IF dueDate.value.n <= startDate.value.n
        THEN Fails(Err("due after start", "", 0, 0))
        ELSE Validated([name |-> name.value, description |-> description.value,
                        startDate |-> startDate.value, dueDate |-> dueDate.value])

\* function validateCommentInput(data): rules is VALIDATION_RULES.comment,
\* which has no property comment, so rules.comment.text throws a TypeError
validateCommentInput(data) ==
    LET rules    == VALIDATION_RULES.comment
        text     == validateRequired(data.text, "Comment Text")
        moduleId == validateRequired(data.moduleId, "Module ID")
        thrown   == FirstError(<<text, moduleId>>)
    IN  IF thrown # NoError THEN Fails(thrown)
        ELSE IF "comment" \notin DOMAIN rules THEN Fails(TypeError)
        ELSE LET textLength == validateLength(text.value, rules.comment.text.min,
                                              rules.comment.text.max, "Comment Text")
             IN  IF textLength # NoError THEN Fails(textLength)
                 ELSE Validated([text |-> text.value, moduleId |-> moduleId.value])

\* function validateUserInput(data): rules is VALIDATION_RULES.user, which
\* has no property user, so rules.user.displayName throws a TypeError
validateUserInput(data) ==
    LET rules       == VALIDATION_RULES.user
        email       == validateEmail(data.email)
        displayName == validateRequired(data.displayName, "Display Name")
        role        == validateEnum(data.role, ValidRoles, "Role")
        thrown      == FirstError(<<email, displayName, role>>)
    IN  IF thrown # NoError THEN Fails(thrown)
        ELSE IF "user" \notin DOMAIN rules THEN Fails(TypeError)
        ELSE LET nameLength == validateLength(displayName.value,
                                              rules.user.displayName.min,
                                              rules.user.displayName.max,
                                              "Display Name")
             IN  IF nameLength # NoError THEN Fails(nameLength)
                 ELSE Validated([email |-> email.value,
                                 displayName |-> displayName.value,
                                 role |-> role.value])

\* payloads of the calls
Letters(k) == Rep("a", k)

ModulePayloads ==
    { [ titleEn |-> titleEn_,
        descriptionEn |-> descriptionEn_,
        shortCode |-> shortCode_,
        dqsNumber |-> dqsNumber_,
        bkz |-> bkz_,
        pricePerUE |-> pricePerUE_,
        pricePerModule |-> pricePerModule_,
        ue45 |-> ue45_,
        weeks |-> weeks_,
        curriculum |-> curriculum_,
        nrMab |-> nrMab_,
        certificate |-> certificate_ ] :
      titleEn_ \in { VUndef, VStr(Letters(2)), VStr(Pad(1, 3, 1)),
            VStr(<<Ctrl>> \o Letters(3) \o <<Script>>) },
      descriptionEn_ \in { VUndef, VStr(Letters(5)), VStr(Letters(10)) },
      shortCode_ \in { VUndef, VStr(Letters(1)), VStr(Letters(2)), VStr(Letters(21)) },
      dqsNumber_ \in { VUndef, VStr(Letters(1)) },
      bkz_ \in { VUndef },
      pricePerUE_ \in { VUndef, VNum(0), VNum(5), VNum(1000001), VStr(Letters(3)) },
      pricePerModule_ \in { VUndef },
      ue45_ \in { VUndef },
      weeks_ \in { VUndef, VNum(105) },
      curriculum_ \in { VUndef },
      nrMab_ \in { VUndef },
      certificate_ \in { VUndef } }

CoursePayloads ==
    { [ name |-> name_,
        description |-> description_ ] :
      name_ \in { VUndef, VNum(5), VStr(Letters(2)), VStr(Letters(3)) },
      description_ \in { VUndef, VStr(Letters(5)), VStr(Letters(10)) } }

RoundPayloads ==
    { [ name |-> name_,
        description |-> description_,
        startDate |-> startDate_,
        dueDate |-> dueDate_ ] :
      name_ \in { VUndef, VStr(Letters(2)), VStr(Letters(3)) },
      description_ \in { VUndef, VStr(Letters(5)) },
      startDate_ \in { VUndef, VStr(Letters(3)), VDate(1), VDate(2) },
      dueDate_ \in { VUndef, VStr(Letters(3)), VDate(1), VDate(2) } }

CommentPayloads ==
    { [ text |-> text_,
        moduleId |-> moduleId_ ] :
      text_ \in { VUndef, VStr(<<" ">>), VStr(Letters(1)), VStr(Letters(5)) },
      moduleId_ \in { VUndef, VStr(<<"m1">>) } }

UserPayloads ==
    { [ email |-> email_,
        displayName |-> displayName_,
        role |-> role_ ] :
      email_ \in { VUndef, VStr(<<"a", "wbs", ".", "de">>),
            VStr(<<"a", "@", "wbs", ".", "de">>),
            VStr(<<" ", "a", "@", "WBS", ".", "DE">>),
            VStr(<<"a", "@", "gmail", ".", "com">>) },
      displayName_ \in { VUndef, VStr(Letters(1)), VStr(Letters(2)) },
      role_ \in { VUndef, VStr(<<"sysadmin">>), VStr(<<"constructor">>) } }

NoValidation == [type |-> Null, payload |-> <<>>, result |-> Validated(NoRecord)]

\* a call of a validator with payload data, result being what it did
Validate(type, data, result) ==
    validation' = [type |-> type, payload |-> data, result |-> result]

ValidateModuleInput(data) ==
    /\ Validate("module", data, validateModuleInput(data))
    /\ UNCHANGED <<authVars, call, noteVars, guardVars, auditVars, handlers>>

ValidateCourseInput(data) ==
    /\ Validate("course", data, validateCourseInput(data))
    /\ UNCHANGED <<authVars, call, noteVars, guardVars, auditVars, handlers>>

ValidateCertificationRoundInput(data) ==
    /\ Validate("certificationRound", data, validateCertificationRoundInput(data))
    /\ UNCHANGED <<authVars, call, noteVars, guardVars, auditVars, handlers>>

ValidateCommentInput(data) ==
    /\ Validate("comment", data, validateCommentInput(data))
    /\ UNCHANGED <<authVars, call, noteVars, guardVars, auditVars, handlers>>

ValidateUserInput(data) ==
    /\ Validate("user", data, validateUserInput(data))
    /\ UNCHANGED <<authVars, call, noteVars, guardVars, auditVars, handlers>>

----------------------------------------------------------------------------
\* Initial state and the specifications

NoCall == [fn |-> Null, role |-> Undefined, minRole |-> Undefined, roles |-> {},
           result |-> Null]

EmptyMap == [k \in {} |-> 0]

InitRest ==
    /\ call           = NoCall
    /\ notes          = <<>>
    /\ noteWrites     = <<>>
    /\ noteResult     = NoResult
    /\ noteCall       = NoNoteCall
    /\ now            = 0
    /\ rateLimitStore = EmptyMap
    /\ rateCall       = NoRateCall
    /\ rateSeen       = NoRateSeen
    /\ recentContentHashes = EmptyMap
    /\ dupCall        = NoDupCall
    /\ dupAccepted    = EmptyMap
    /\ auditLogs      = <<>>
    /\ auditCall      = NoAuditCall
    /\ handlers       = [h \in HandlerIds |-> IdleHandler]
    /\ validation     = NoValidation

Init == InitAuth /\ InitRest

Next ==
    \/ \E req \in Requests, opts \in Options : Authenticate(req, opts)
    \/ CheckRoles
    \/ CheckRound
    \/ CheckOwnership
    \/ Return
    \/ \E u \in ProfileIds, p \in Profiles \cup {NoProfile} : ExtSetUser(u, p)
    \/ \E r \in RoundIds, s \in RoundStatuses : ExtSetRound(r, s)
    \/ \E m \in ResourceIds, d \in ResourceData \cup {NoResource} : ExtSetResource(m, d)

Spec == Init /\ [][Next]_vars

NextHelpers ==
    \/ \E role \in AnyRoles, minRole \in AnyRoles : CallRequireMinRole(role, minRole)
    \/ \E role \in AnyRoles, rs \in RoleSets : CallRequireRole(role, rs)

SpecHelpers == Init /\ [][NextHelpers]_vars

NextNotes ==
    \/ \E auth \in NoteCallers, title \in TitleInputs, content \in ContentInputs,
          outcome \in StoreOutcomes : CreateNote(auth, title, content, outcome)
    \/ \E outcome \in ReadOutcomes : ReadNotes(outcome)

SpecNotes == Init /\ [][NextNotes]_vars

NextGuard ==
    \/ \E u \in GuardUsers, a \in GuardActions, m \in MaxRequestsArgs,
          w \in WindowArgs : CheckRateLimit(u, a, m, w)
    \/ Tick

SpecGuard == Init /\ [][NextGuard]_vars

\* every call for a key made with the same maxRequests and windowMs
FixedLimits ==
    [u1 |-> [maxRequests |-> 1, windowMs |-> 2],
     u2 |-> [maxRequests |-> 2, windowMs |-> 3]]

NextGuardFixed ==
    \/ \E u \in GuardUsers, a \in GuardActions :
          CheckRateLimit(u, a, FixedLimits[u].maxRequests, FixedLimits[u].windowMs)
    \/ Tick

SpecGuardFixed == Init /\ [][NextGuardFixed]_vars

NextDup ==
    \/ \E sub \in DupSubmissions, a \in DupActions, w \in DupWindows :
          CheckDuplicateContent(sub.userId, sub.content, a, w)
    \/ Tick

SpecDup == Init /\ [][NextDup]_vars

\* the duplicate guard called for one user only
NextDupOneUser ==
    \/ \E sub \in { d \in DupSubmissions : d.userId = <<"u">> },
          a \in DupActions, w \in DupWindows :
          CheckDuplicateContent(sub.userId, sub.content, a, w)
    \/ Tick

SpecDupOneUser == Init /\ [][NextDupOneUser]_vars

\* one submission is always made with the same window, while the calls
\* for the other users and contents come with any window
WatchedSubmission == [userId |-> <<"u">>, content |-> <<"b">>]
WatchedWindow     == 4

NextDupWatched ==
    \/ \E a \in DupActions :
          CheckDuplicateContent(WatchedSubmission.userId, WatchedSubmission.content,
                                a, WatchedWindow)
    \/ \E sub \in DupSubmissions \ {WatchedSubmission},
          a \in DupActions, w \in DupWindows :
          CheckDuplicateContent(sub.userId, sub.content, a, w)
    \/ Tick

SpecDupWatched == Init /\ [][NextDupWatched]_vars

\* both abuse guards called in any order
AbuseSubmissions == { d \in DupSubmissions : d.userId = <<"u">> /\ Len(d.content) <= 2 }
AbuseWindows     == {1, 4}

NextAbuse ==
    \/ \E u \in GuardUsers, a \in GuardActions :
          CheckRateLimit(u, a, FixedLimits[u].maxRequests, FixedLimits[u].windowMs)
    \/ \E sub \in AbuseSubmissions, w \in AbuseWindows :
          CheckDuplicateContent(sub.userId, sub.content, "createComment", w)
    \/ Tick

SpecAbuse == Init /\ [][NextAbuse]_vars

NextAudit ==
    \E a \in AuditActions, c \in AuditContexts, d \in AuditDetails,
       o \in AuditOutcomes : LogAudit(a, c, d, o)

SpecAudit == Init /\ [][NextAudit]_vars

NextRace ==
    \/ \E h \in HandlerIds, u \in RaceUsers, a \in GuardActions,
          m \in RaceMaxRequests, w \in RaceWindows : Arrive(h, u, a, m, w)
    \/ \E h \in HandlerIds : Run(h)
    \/ \E h \in HandlerIds : Finish(h)
    \/ Tick

\* a handler whose request arrived calls checkRateLimit, and a handler that
\* called it responds
SpecRace ==
    /\ Init /\ [][NextRace]_vars
    /\ WF_vars(Run("h1")) /\ WF_vars(Run("h2"))
    /\ WF_vars(Finish("h1")) /\ WF_vars(Finish("h2"))

NextValidators ==
    \/ \E data \in ModulePayloads : ValidateModuleInput(data)
    \/ \E data \in CoursePayloads : ValidateCourseInput(data)
    \/ \E data \in RoundPayloads : ValidateCertificationRoundInput(data)
    \/ \E data \in CommentPayloads : ValidateCommentInput(data)
    \/ \E data \in UserPayloads : ValidateUserInput(data)

SpecValidators == Init /\ [][NextValidators]_vars

----------------------------------------------------------------------------
\* Properties of the authorization pipeline (specification Spec)

Names(cs) == [i \in 1..Len(cs) |-> cs[i].name]

IsPrefix(s, t) == Len(s) <= Len(t) /\ \A i \in 1..Len(s) : s[i] = t[i]

\* the checks an invocation with these options is to run, in the fixed order
ConfiguredChecks(opts) ==
    <<"authenticate">>
    \o (IF opts.requireRoles.set THEN <<"requireRole">> ELSE <<>>)
    \o (IF opts.requireMinRole # Null THEN <<"requireMinRole">> ELSE <<>>)
    \o (IF opts.requireActiveRound THEN <<"requireActiveRound">> ELSE <<>>)
    \o (IF opts.requireOwnership.set THEN <<"requireOwnership">> ELSE <<>>)

ErrorsOf(name) ==
    CASE name = "authenticate"       -> {ErrNoAuth, ErrUserNotFound, ErrDeactivated, ErrInvalidRole}
      [] name = "requireRole"        -> {ErrRoles}
      [] name = "requireMinRole"     -> {ErrMinRole}
      [] name = "requireActiveRound" -> {ErrNoRound}
      [] name = "requireOwnership"   -> {ErrNotFound, ErrNotOwner}

C1_OrderState ==
    pc # "idle" =>
        /\ IsPrefix(Names(checks), ConfiguredChecks(options))
        /\ Len(reads) <= Len(checks)
        /\ \A i \in 1..(Len(checks) - 1) : checks[i].ok
        /\ pc = "failed" => /\ ~checks[Len(checks)].ok
                            /\ error \in ErrorsOf(checks[Len(checks)].name)
        /\ pc # "failed" => /\ \A i \in 1..Len(checks) : checks[i].ok
                            /\ error = Null
        /\ pc = "done"   => Names(checks) = ConfiguredChecks(options)

C1_NothingAfterFailure ==
    pc = "failed" =>
        \/ pc' = "idle"
        \/ pc' = "failed" /\ checks' = checks /\ reads' = reads /\ error' = error

\* C1: authorizeRequest runs authenticate, role-set check, min-role check,
\* active-round check, ownership check in this order, each optional one
\* only if configured; the first failing check gives the error, and after a
\* failure no further check and no further store read is performed.
C1_FixedOrderShortCircuit ==
    []C1_OrderState /\ [][C1_NothingAfterFailure]_vars

\* a role-set failure with min-role, round and ownership checks configured
\* behind it: none of them ran
C1_Witness ==
    /\ pc = "failed"
    /\ error = ErrRoles
    /\ options.requireMinRole # Null
    /\ options.requireActiveRound
    /\ options.requireOwnership.set
    /\ Names(checks) = <<"authenticate", "requireRole">>
    /\ reads = <<"users">>

----------------------------------------------------------------------------
\* the steps of the invocation, as seen from outside
AuthenticateDone == pc = "idle" /\ pc' # "idle"
RoundQueried     == pc = "round" /\ pc' # "round" /\ options.requireActiveRound
OwnershipChecked == pc = "ownership" /\ pc' # "ownership" /\ options.requireOwnership.set

NoActiveRound == \A r \in RoundIds : rounds[r] # "active"

C3_Query ==
    RoundQueried =>
        IF NoActiveRound
        THEN pc' = "failed" /\ error' = ErrNoRound
        ELSE /\ pc' = "ownership"
             /\ activeRound'.status = "active"
             /\ activeRound'.id \in RoundIds
             /\ rounds[activeRound'.id] = "active"

C3_Result ==
    /\ (pc \in {"ownership", "done"} /\ options.requireActiveRound)
           => activeRound.status = "active"
    /\ (pc = "done" /\ ~options.requireActiveRound) => activeRound = NoRound

\* C3: with requireActiveRound set, authorizeRequest fails with the 'No
\* active certification round' error whenever no round has status 'active'
\* when the query is made, whatever the caller's role; on success the
\* returned activeRound is a round whose status was 'active'; without
\* requireActiveRound the returned activeRound is null.
C3_ActiveRoundGate ==
    []C3_Result /\ [][C3_Query]_vars

\* a sysadmin caller stopped by the gate
C3_Witness ==
    /\ pc = "failed"
    /\ error = ErrNoRound
    /\ userContext.role = "sysadmin"
    /\ options.requireActiveRound

SysadminContexts == { [userId |-> u, role |-> "sysadmin", active |-> TRUE] : u \in UserIds }

C4_Step ==
    (OwnershipChecked /\ userContext.role = "sysadmin")
        => pc' = "done" /\ reads' = reads /\ error' = Null

C4_AnyResource ==
    \A ctx \in SysadminContexts, m \in ResourceIds, f \in {Undefined, "createdBy", "assignedTo"} :
        requireOwnership(ctx, m, f, resources) = [error |-> Ok, reads |-> <<>>]

\* C4: requireOwnership for a sysadmin context always succeeds and reads
\* nothing from the store, whoever owns the resource and whether or not it
\* exists.
C4_SysadminBypass ==
    []C4_AnyResource /\ [][C4_Step]_vars

\* a sysadmin passed the ownership check of a resource created by another
\* user, and the invocation read only the profile
C4_Witness ==
    /\ pc = "done"
    /\ userContext.role = "sysadmin"
    /\ options.requireOwnership.set
    /\ options.requireOwnership.ownerField = Undefined
    /\ resources[options.requireOwnership.resourceId].exists
    /\ resources[options.requireOwnership.resourceId].createdBy # userContext.userId
    /\ ~options.requireActiveRound
    /\ reads = <<"users">>

\* the owner recorded in a resource document under the requested field
OwnerIn(doc, ownerFieldArg) ==
    IF ownerFieldArg = "assignedTo" THEN doc.assignedTo ELSE doc.createdBy

C5_Step ==
    (OwnershipChecked /\ userContext.role # "sysadmin") =>
        LET doc == resources[options.requireOwnership.resourceId]
            f   == options.requireOwnership.ownerField
        IN  /\ ~doc.exists => (pc' = "failed" /\ error' = ErrNotFound)
            /\ (doc.exists /\ OwnerIn(doc, f) # userContext.userId)
                   => (pc' = "failed" /\ error' = ErrNotOwner)
            /\ (doc.exists /\ OwnerIn(doc, f) = userContext.userId) => pc' = "done"
            /\ reads' = Append(reads, "modules")

\* C5: for a caller who is not sysadmin, requireOwnership fails with the
\* not-found error if the resource document is absent, with the forbidden
\* error if its ownerField (createdBy by default) differs from ctx.userId,
\* and succeeds exactly when the document exists and the field equals
\* ctx.userId.
C5_OwnershipOutcome == [][C5_Step]_vars

\* a non-sysadmin owner by assignedTo, not by createdBy, was let through
C5_Witness ==
    /\ pc = "done"
    /\ userContext.role # "sysadmin"
    /\ options.requireOwnership.set
    /\ options.requireOwnership.ownerField = "assignedTo"
    /\ resources[options.requireOwnership.resourceId].assignedTo = userContext.userId
    /\ resources[options.requireOwnership.resourceId].createdBy # userContext.userId
    /\ checks[Len(checks)] = [name |-> "requireOwnership", ok |-> TRUE]

C6_Step ==
    AuthenticateDone =>
        LET auth    == request'.auth
            profile == users[auth.uid]
        IN  /\ ~auth.present
                => (pc' = "failed" /\ error' = ErrNoAuth /\ reads' = <<>>
                    /\ userContext' = NoContext)
            /\ (auth.present /\ ~profile.exists)
                => (pc' = "failed" /\ error' = ErrUserNotFound /\ userContext' = NoContext)
            /\ (auth.present /\ profile.exists /\ ~profile.active)
                => (pc' = "failed" /\ error' = ErrDeactivated /\ userContext' = NoContext)

\* C6: authenticateUser rejects, in this order, a request without caller
\* identity (before any store read), a caller without profile, a caller
\* whose profile is not active, and returns no context to any of them.
C6_RejectionOrder == [][C6_Step]_vars

\* a deactivated caller with a valid role in the token and in the profile
C6_Witness ==
    /\ pc = "failed"
    /\ error = ErrDeactivated
    /\ request.auth.present
    /\ request.auth.role \in ROLES
    /\ users[request.auth.uid].exists
    /\ ~users[request.auth.uid].active
    /\ userContext = NoContext

\* C7 as claimed: for an existing, active caller authenticateUser fails
\* with 'Invalid user role' only if neither the token claim nor the stored
\* role is a valid role.
C7_Claimed_Step ==
    (AuthenticateDone /\ error' = ErrInvalidRole) =>
        /\ request'.auth.role \notin ROLES
        /\ users[request'.auth.uid].role \notin ROLES

C7_Claimed == [][C7_Claimed_Step]_vars

C7_Step ==
    (AuthenticateDone /\ request'.auth.present
        /\ users[request'.auth.uid].exists /\ users[request'.auth.uid].active) =>
        LET claim  == request'.auth.role
            chosen == IF claim \notin {Undefined, Null, ""}
                      THEN claim ELSE users[request'.auth.uid].role
        IN  IF chosen \in ROLES
            THEN pc' = "roles" /\ userContext'.role = chosen
            ELSE pc' = "failed" /\ error' = ErrInvalidRole

\* C7 (amended): for an existing, active caller authenticateUser takes the
\* token's role claim when present and otherwise the stored role, and fails
\* with 'Invalid user role' exactly when the role so chosen is not one of
\* sysadmin, programOwner, operations -- also when the token claim is
\* invalid and the stored role is valid.
C7_RoleChoice == [][C7_Step]_vars

\* an invalid token claim rejected although the stored role is valid
C7_Witness ==
    /\ pc = "failed"
    /\ error = ErrInvalidRole
    /\ request.auth.role = "hacker"
    /\ users[request.auth.uid].exists
    /\ users[request.auth.uid].active
    /\ users[request.auth.uid].role \in ROLES

\* C8: every UserContext returned by authenticateUser, hence by
\* authorizeRequest, has a role in {sysadmin, programOwner, operations}
\* and active = TRUE.
C8_ContextValid ==
    pc \in {"roles", "round", "ownership", "done"} =>
        /\ userContext.role \in ROLES
        /\ userContext.active = TRUE
        /\ userContext.userId = request.auth.uid

\* authorizeRequest returned the context of a caller whose role comes from
\* the token although the profile stores none
C8_Witness ==
    /\ pc = "done"
    /\ userContext.role = "programOwner"
    /\ userContext.active
    /\ users[userContext.userId].exists
    /\ users[userContext.userId].role = Undefined

----------------------------------------------------------------------------
\* Properties of the helpers (specification SpecHelpers)

\* the level the role hierarchy is documented to give a role
DocumentedLevel(role) ==
    CASE role = "sysadmin"     -> 3
      [] role = "programOwner" -> 2
      [] role = "operations"   -> 1
      [] OTHER                 -> 0

\* C9: requireMinRole(ctx, minRole) succeeds if and only if
\* level(ctx.role) >= level(minRole), with sysadmin = 3, programOwner = 2,
\* operations = 1 and every unknown role at level 0.
C9_MinRoleIffLevel ==
    call.fn = "requireMinRole" =>
        (call.result = Ok <=> DocumentedLevel(call.role) >= DocumentedLevel(call.minRole))

----------------------------------------------------------------------------
\* Properties of the notes endpoints (specification SpecNotes)

\* C2: every write of a request handler to the document store, createNote's
\* add to the notes collection in particular, is preceded within the same
\* request by a successful authorizeRequest call.
C2_WritesAuthorized ==
    \A i \in 1..Len(noteWrites) : noteWrites[i].authorizeRequestCalled

----------------------------------------------------------------------------
\* Properties of the abuse guard (specification SpecGuard)

RateCalled == rateCall' # rateCall

C10_Claimed_Step ==
    RateCalled =>
        LET key   == rateCall'.userId \o ":" \o rateCall'.action
            young == YoungOf(key, rateCall'.windowMs)
        IN  /\ rateCall'.ok <=> Len(young) < rateCall'.maxRequests
            /\ rateCall'.ok => rateLimitStore'[key] = Append(young, now)

\* C10: each checkRateLimit call fails exactly when the number of recorded
\* timestamps of its key younger than windowMs is >= maxRequests, the first
\* call ever made for a key included, and otherwise appends the current
\* time and succeeds; so within one window the first maxRequests calls
\* succeed and the next one fails, for every maxRequests.
C10_RateLimit == [][C10_Claimed_Step]_vars

\* the last accepted call of the key lies a full window before this call
WindowElapsed ==
    /\ rateCall.userId # Null
    /\ rateSeen.present
    /\ rateSeen.before # <<>>
    /\ rateSeen.at - rateSeen.before[Len(rateSeen.before)] >= rateCall.windowMs

\* C11 as claimed: if at least windowMs has elapsed since the last accepted
\* call for a key, the next checkRateLimit call for that key succeeds.
C11_Claimed == WindowElapsed => rateCall.ok

\* C11 (amended): if at least windowMs has elapsed since the last accepted
\* call for a key, the next checkRateLimit call for that key with
\* maxRequests >= 1 succeeds, also right after a rejection of that key.
C11_ResetAfterWindow ==
    (WindowElapsed /\ rateCall.maxRequests >= 1) => rateCall.ok

\* a key rejected at the limit is accepted again once the window is over
C11_Witness ==
    /\ WindowElapsed
    /\ rateCall.maxRequests >= 1
    /\ rateCall.ok
    /\ rateSeen.afterRejection
    /\ Len(rateSeen.before) >= rateCall.maxRequests
    /\ rateLimitStore[RateKey(rateCall.userId, rateCall.action)] = <<rateSeen.at>>

----------------------------------------------------------------------------
\* Properties of the duplicate-content guard (specification SpecDup)

DupCalled == dupCall' # dupCall

\* the user and content prefix of the call just made
DupPair == <<dupCall'.userId, Prefix(dupCall'.content)>>

\* the same user has had a submission with this content prefix accepted
Resubmission == DupPair \in DOMAIN dupAccepted

\* it comes less than windowMs after the last accepted submission of the
\* same user and content prefix
WithinWindow ==
    /\ Resubmission
    /\ now - dupAccepted[DupPair] < dupCall'.windowMs

C12_Step ==
    (DupCalled /\ Resubmission) =>
        /\ WithinWindow => ~dupCall'.ok
        /\ ~WithinWindow =>
               /\ dupCall'.ok
               /\ recentContentHashes'[ContentHash(dupCall'.userId, dupCall'.content)] = now

\* C12: for the same user and the same content, a checkDuplicateContent
\* call made less than windowMs after the previous accepted call fails, and
\* a call made windowMs or more after it succeeds and records the new time.
C12_DuplicateWindow == [][C12_Step]_vars


C13_Step ==
    DupCalled =>
        /\ WithinWindow => ~dupCall'.ok
        /\ ~dupCall'.ok => WithinWindow

\* C13: the duplicate-content key depends only on userId and the first 100
\* characters of content: a call is rejected when the same user had a
\* content with the same first 100 characters accepted less than windowMs
\* before, whatever the actions and the characters after the 100th, and
\* calls by different users never collide.
C13_KeyIsUserAndPrefix == [][C13_Step]_vars

C14_Step ==
    DupCalled =>
        \A k \in DOMAIN recentContentHashes' :
            ~(now - recentContentHashes'[k] > 2 * dupCall'.windowMs)

\* C14: on every call of checkDuplicateContent, accepted or rejected, all
\* entries older than 2 x windowMs are removed, so that after the call the
\* store holds no entry older than 2 x windowMs.
C14_SweepOnEveryCall == [][C14_Step]_vars

\* the call just made repeats the watched submission, accepted at t with
\* window W, and comes before t + W
BeforeWindowEnd ==
    /\ Resubmission
    /\ DupPair = <<WatchedSubmission.userId, Prefix(WatchedSubmission.content)>>
    /\ now < dupAccepted[DupPair] + WatchedWindow

C25_Step == (DupCalled /\ BeforeWindowEnd) => ~dupCall'.ok

\* C25: duplicate suppression for one key cannot be defeated by calls on
\* other keys: once a submission of a user and content prefix was accepted
\* at t with window W, a resubmission of it before t + W is rejected,
\* whatever calls for other contents, with whatever windowMs, came between.
C25_NotDefeatedByOtherKeys == [][C25_Step]_vars

----------------------------------------------------------------------------
\* authorizeRequest against concurrent writers (specification Spec)

\* authorizeRequest called with requireActiveRound is about to hand its
\* result to the caller
ReturnsAuthorized ==
    /\ pc = "done"
    /\ options.requireActiveRound

\* C27: with rounds and profiles changed concurrently by external actors,
\* whenever authorizeRequest with requireActiveRound returns successfully, a
\* round with status 'active' still exists at that moment and the caller's
\* profile is still active.
C27_StillActiveAtReturn ==
    ReturnsAuthorized =>
        /\ \E r \in RoundIds : rounds[r] = "active"
        /\ users[userContext.userId].exists
        /\ users[userContext.userId].active

----------------------------------------------------------------------------
\* Frame of the two abuse guards (specification SpecAbuse)

\* the entries of all rate-limit keys but the called one stay as they were
OtherRateKeysKept ==
    LET key == RateKey(rateCall'.userId, rateCall'.action)
    IN  /\ DOMAIN rateLimitStore \subseteq DOMAIN rateLimitStore'
        /\ DOMAIN rateLimitStore' \subseteq DOMAIN rateLimitStore \cup {key}
        /\ \A k \in DOMAIN rateLimitStore \ {key} :
               rateLimitStore'[k] = rateLimitStore[k]

\* the same call made again at the same time would be treated the same
\* way: the blocking of the key ends when it would have ended anyway
RateBlockedUntil(store, key, maxRequests, windowMs) ==
    { t \in now..MaxTime + windowMs :
        LET Young(s) == t - s < windowMs
        IN  Len(SelectSeq(store[key], Young)) >= maxRequests }

C26_Step ==
    /\ RateCalled =>
           /\ OtherRateKeysKept
           /\ recentContentHashes' = recentContentHashes
           /\ ~rateCall'.ok =>
                  /\ rateLimitStore' = rateLimitStore
                  /\ LET key == RateKey(rateCall'.userId, rateCall'.action)
                     IN  RateBlockedUntil(rateLimitStore', key, rateCall'.maxRequests,
                                          rateCall'.windowMs)
                         = RateBlockedUntil(rateLimitStore, key, rateCall'.maxRequests,
                                            rateCall'.windowMs)
    /\ DupCalled =>
           /\ rateLimitStore' = rateLimitStore
           /\ ~dupCall'.ok => recentContentHashes' = recentContentHashes

\* C26: a rejected abuse-guard call leaves the guard state unchanged: a
\* failing checkRateLimit adds no timestamp to the rate-limit store and
\* changes nothing else in it, a failing checkDuplicateContent does not
\* update the time recorded for its key, so rejected attempts do not prolong
\* the blocking; and a call on one key never changes the entry of another
\* rate-limit key.
C26_RejectedLeavesGuardState == [][C26_Step]_vars

\* both guards have rejected a call while both rate-limit keys had entries
C26_Witness ==
    /\ rateCall.userId # Null /\ ~rateCall.ok
    /\ dupCall.action # Null /\ ~dupCall.ok
    /\ Cardinality(DOMAIN rateLimitStore) = 2
    /\ DOMAIN recentContentHashes # {}

----------------------------------------------------------------------------
\* Properties of the audit log helper (specification SpecAudit)

AuditCalled == auditCall' # auditCall

C15_Step ==
    AuditCalled =>
        /\ auditCall'.completion = "returned"
        /\ auditCall'.logged # Null => auditLogs' = auditLogs
        /\ UNCHANGED <<authVars, call, noteVars, guardVars>>

\* C15: logAudit never raises to its caller: whatever the store does with
\* the write (success, unavailable, rejected) and whatever the arguments,
\* the call completes normally; a failed write is only logged, and the
\* stores and results of the operations around it stay as they are.
C15_LogAuditNeverRaises == [][C15_Step]_vars

\* a write was rejected after an earlier one succeeded: the call returned,
\* the error was logged and the earlier entry is still there
C15_Witness ==
    /\ auditCall.outcome = "rejected"
    /\ auditCall.logged = "rejected"
    /\ auditCall.completion = "returned"
    /\ Len(auditLogs) = 1

----------------------------------------------------------------------------
\* Properties of concurrent checkRateLimit calls (specification SpecRace)

SameCall(h, g) ==
    /\ handlers[h].userId = handlers[g].userId
    /\ handlers[h].action = handlers[g].action
    /\ handlers[h].maxRequests = handlers[g].maxRequests
    /\ handlers[h].windowMs = handlers[g].windowMs

\* both handlers are about to call checkRateLimit for the same key and
\* limit while exactly one slot remains
BoundaryRace ==
    /\ handlers["h1"].pc = "pending"
    /\ handlers["h2"].pc = "pending"
    /\ SameCall("h1", "h2")
    /\ LET r == handlers["h1"]
       IN  r.maxRequests - Len(YoungOf(RateKey(r.userId, r.action), r.windowMs)) = 1

\* both calls succeeded and the window holds more than maxRequests calls
Overshoot ==
    /\ handlers["h1"].pc = "done" /\ handlers["h1"].ok
    /\ handlers["h2"].pc = "done" /\ handlers["h2"].ok
    /\ SameCall("h1", "h2")
    /\ LET r == handlers["h1"]
       IN  Len(YoungOf(RateKey(r.userId, r.action), r.windowMs)) > r.maxRequests

C16_Step ==
    \A h \in HandlerIds :
        (/\ handlers[h].pc = "pending"
         /\ handlers'[h].pc = "done"
         /\ handlers'[h].ok)
        => LET r        == handlers[h]
               Young(t) == now - t < r.windowMs
           IN  Len(SelectSeq(rateLimitStore'[RateKey(r.userId, r.action)], Young))
                   <= r.maxRequests

----------------------------------------------------------------------------
\* Properties of createNote and readNotes (specification SpecNotes)

\* a step of createNote
NoteCreateCalled ==
    /\ noteResult'.op = "createNote"
    /\ <<noteCall, noteResult, notes>>' # <<noteCall, noteResult, notes>>

\* the value is missing or blank after trimming
Blank(v) == Falsy(v) \/ (v.t = "string" /\ Trim(v.s) = <<>>)

\* the value violates its constraint: missing, blank, or shorter than min
\* after trimming
Violates(v, min) == Blank(v) \/ (v.t = "string" /\ Len(Trim(v.s)) < min)

C17_Step ==
    (/\ NoteCreateCalled
     /\ \/ Violates(noteCall'.title, TitleMin)
        \/ Violates(noteCall'.content, ContentMin))
    => /\ noteResult'.code = "invalid-argument"
       /\ notes' = notes

\* C17: whenever the title, after trimming, is empty or shorter than 3
\* characters, or the content, after trimming, is empty or shorter than 10
\* characters, createNote fails with code invalid-argument and the notes
\* collection is unchanged.
C17_InvalidInputAborts == [][C17_Step]_vars

BothViolate ==
    /\ Violates(noteCall'.title, TitleMin)
    /\ Violates(noteCall'.content, ContentMin)

C18_Claimed_Step ==
    (NoteCreateCalled /\ BothViolate)
    => /\ noteResult'.code = "invalid-argument"
       /\ noteResult'.message \in {MsgTitleRequired, MsgTitleShort}

\* C18 as stated: whenever both the title and the content violate their
\* constraints, the invalid-argument error is the one about the title.
C18_Claimed == [][C18_Claimed_Step]_vars

C18_Step ==
    (NoteCreateCalled /\ BothViolate)
    => /\ noteResult'.code = "invalid-argument"
       /\ noteResult'.message =
              IF Blank(noteCall'.title) THEN MsgTitleRequired
              ELSE IF Blank(noteCall'.content) THEN MsgContentRequired
              ELSE MsgTitleShort

\* C18: whenever both the title and the content violate their constraints,
\* the error is invalid-argument; it is the one about the title, except
\* that a title which is only too short and a content which is missing or
\* blank give "Content is required".
C18_TitleFirst == [][C18_Step]_vars

\* title of length 2 and content of length 5: the title error is returned
C18_Witness ==
    /\ noteCall.title = JsString(Pad(0, 2, 0))
    /\ noteCall.content = JsString(Pad(0, 5, 0))
    /\ noteResult.op = "createNote"
    /\ noteResult.code = "invalid-argument"
    /\ noteResult.message = MsgTitleShort

\* ids of the notes written by createNote calls that returned success
ReturnedIds ==
    { noteWrites[i].id : i \in { j \in 1..Len(noteWrites) : noteWrites[j].returned } }

C19_Create_Step ==
    (NoteCreateCalled /\ noteResult'.success)
    => /\ notes' = Append(notes, noteResult'.note)
       /\ noteResult'.note.title = Trim(noteCall'.title.s)
       /\ noteResult'.note.content = Trim(noteCall'.content.s)
       /\ noteResult'.note.status = "active"
       /\ noteResult'.note.createdAt # Null
       /\ noteResult'.note.updatedAt # Null
       /\ \A i \in 1..Len(notes) : notes[i].id # noteResult'.note.id

C19_Read ==
    (noteResult.op = "readNotes" /\ noteResult.success)
    => LET Returned(d) == d.id \in ReturnedIds
       IN  /\ noteResult.notes = SelectSeq(notes, Returned)
           /\ noteResult.count = Cardinality(ReturnedIds)

\* C19: each successful createNote adds exactly one document with the
\* trimmed title and content, status active, timestamps and a fresh id, and
\* returns it; a readNotes that succeeds returns exactly the notes created
\* by the successful createNote calls so far, and their number as count.
C19_CreatedNotesRead == [][C19_Create_Step]_vars /\ []C19_Read

TooLong(v, max) == v.t = "string" /\ Len(Trim(v.s)) > max

C20_Step ==
    (/\ NoteCreateCalled
     /\ \/ TooLong(noteCall'.title, TitleMax)
        \/ TooLong(noteCall'.content, ContentMax))
    => /\ ~noteResult'.success
       /\ notes' = notes

C20_Stored ==
    \A i \in 1..Len(notes) :
        /\ Len(notes[i].title) >= TitleMin /\ Len(notes[i].title) <= TitleMax
        /\ Len(notes[i].content) >= ContentMin /\ Len(notes[i].content) <= ContentMax

\* C20: a note is persisted only if its title has 3 to 200 characters and
\* its content has 10 to 5000 characters; a request with a longer title or
\* content is rejected and nothing is written.
C20_DocumentedBounds == [][C20_Step]_vars /\ []C20_Stored

\* the messages the handlers fall back to
GenericMessages == {MsgCreateFailed, MsgReadFailed}

\* C21: every unexpected failure inside readNotes or createNote (a store
\* error, a runtime fault such as a non-string title) reaches the caller as
\* an error of code internal with a generic message, never with the
\* message of the original error.
C21_GenericInternal ==
    (noteResult.op # Null /\ ~noteResult.success)
    => /\ noteResult.code \in {"invalid-argument", "internal"}
       /\ noteResult.code = "internal" => noteResult.message \in GenericMessages

----------------------------------------------------------------------------
\* Properties of the input validators (specification SpecValidators)

\* a required field with a length constraint, checked as one field
RequiredWithin(value, min, max, fieldName) ==
    LET r == validateRequired(value, fieldName)
        e == validateLength(r.value, min, max, fieldName)
    IN  IF r.err # NoError THEN r ELSE IF e # NoError THEN Thrown(e) ELSE r

\* the error of the earliest field, in declared order, that violates one of
\* its constraints
DeclaredOrderError(type, data) ==
    LET rules == VALIDATION_RULES[type]
    IN  CASE type = "module" ->
               FirstError(<<
                   RequiredWithin(data.titleEn, rules.titleEn.min, rules.titleEn.max,
                                  "English Title"),
                   RequiredWithin(data.descriptionEn, rules.descriptionEn.min,
                                  rules.descriptionEn.max, "English Description"),
                   validateOptional(data.shortCode, rules.shortCode.min,
                                    rules.shortCode.max, "Short Code"),
                   validateOptional(data.dqsNumber, rules.dqsNumber.min,
                                    rules.dqsNumber.max, "DQS Number"),
                   validateOptional(data.bkz, 1, 50, "BKZ"),
                   OptionalNumber(data.pricePerUE, 0, 1000000, "Price per UE"),
                   OptionalNumber(data.pricePerModule, 0, 1000000, "Price per Module"),
                   OptionalNumber(data.ue45, 1, 1000, "UE in 45 Min"),
                   OptionalNumber(data.weeks, 1, 104, "Weeks"),
                   validateOptional(data.curriculum, 0, rules.curriculum.max,
                                    "Curriculum"),
                   validateOptional(data.nrMab, 0, 50, "Nr MAB"),
                   validateOptional(data.certificate, 0, 200, "Certificate") >>)
          [] type = "course" ->
               FirstError(<<
                   RequiredWithin(data.name, rules.name.min, rules.name.max,
                                  "Course Name"),
                   RequiredWithin(data.description, rules.description.min,
                                  rules.description.max, "Course Description") >>)
          [] type = "certificationRound" ->
               LET startDate == validateDate(data.startDate, "Start Date")
                   dueDate   == validateDate(data.dueDate, "Due Date")
                   fields    == FirstError(<<
                       RequiredWithin(data.name, rules.name.min, rules.name.max,
                                      "Round Name"),
                       validateOptional(data.description, 0, rules.description.max,
                                        "Description"),
                       startDate, dueDate >>)
               IN  IF fields # NoError THEN fields
                   ELSE IF dueDate.value.n <= startDate.value.n
                   THEN Err("due after start", "", 0, 0)
                   ELSE NoError
          [] type = "comment" ->
               FirstError(<<
                   RequiredWithin(data.text, rules.text.min, rules.text.max,
                                  "Comment Text"),
                   validateRequired(data.moduleId, "Module ID") >>)
          [] type = "user" ->
               FirstError(<<
                   validateEmail(data.email),
                   RequiredWithin(data.displayName, rules.displayName.min,
                                  rules.displayName.max, "Display Name"),
                   validateEnum(data.role, ValidRoles, "Role") >>)

\* C22: the per-resource validators are first-failure-wins in declared
\* field order: a payload that violates constraints of several fields fails
\* with the error of the earliest violated field (validateModuleInput,
\* validateCourseInput, validateCertificationRoundInput); a titleEn shorter
\* than 3 is reported as the English Title minimum-length error whatever
\* the later fields contain.
C22_DeclaredOrder ==
    validation.type \in {"module", "course", "certificationRound"}
    => validation.result.error = DeclaredOrderError(validation.type, validation.payload)

\* C23: for each resource type, validate<Type>Input returns a validated
\* record for every payload whose fields all satisfy the declared
\* constraints, and otherwise fails with a validation error naming a
\* violated constraint; it never fails in any other way.
C23_RecordOrValidationError ==
    validation.type # Null
    => IF DeclaredOrderError(validation.type, validation.payload) = NoError
       THEN ~validation.result.threw
       ELSE /\ validation.result.threw
            /\ validation.result.error.kind # "TypeError"

----------------------------------------------------------------------------
\* Properties of checkRateLimit under one limit per key (SpecGuardFixed)

\* how often timestamp t occurs in the list
Count(list, t) == Cardinality({ i \in 1..Len(list) : list[i] = t })

\* the list stored for user u in the given store
ListOf(store, u) ==
    LET key == RateKey(u, "createModule")
    IN  IF key \in DOMAIN store THEN store[key] ELSE <<>>

C24_Bounded ==
    \A u \in GuardUsers :
        Len(ListOf(rateLimitStore, u)) <= FixedLimits[u].maxRequests

C24_Step ==
    /\ \A u \in GuardUsers : \A t \in 0..MaxTime :
           now' - t < FixedLimits[u].windowMs
           => Count(ListOf(rateLimitStore', u), t) >= Count(ListOf(rateLimitStore, u), t)
    /\ (RateCalled /\ rateCall'.ok)
       => Count(ListOf(rateLimitStore', rateCall'.userId), now)
              = Count(ListOf(rateLimitStore, rateCall'.userId), now) + 1

====
